---- MODULE Spec2Model ----
(***************************************************************************)
(* Model of co-tasks (src/index.js): the CoTasks class.                    *)
(*                                                                         *)
(* The registry is the pair (this.tasks, this.allowedTasks).  this.tasks   *)
(* is a plain object keyed by task name; it is modelled as a function      *)
(* whose DOMAIN is the set of own keys.  Task names are drawn from         *)
(* ordinary identifiers (no name inherited from Object.prototype).         *)
(*                                                                         *)
(* run and pipe are generators driven by co: they advance synchronously    *)
(* from one handler invocation to the next, so every action below is one   *)
(* synchronous stretch of the code between two suspension points.          *)
(***************************************************************************)
EXTENDS Integers, Sequences, FiniteSets, TLC

\* ---------------------------------------------------------------- bounds
\* number of handler functions the callers register
MaxRegs == 2
\* the value of a positive timeout argument, in ms
TimeoutMs == 500

\* ---------------------------------------------------------------- names
BareNames == {"a", "b"}

PreName(t) == "pre-" \o t

PostName(t) == "post-" \o t

AllNames == BareNames \cup {PreName(t) : t \in BareNames} \cup {PostName(t) : t \in BareNames}

\* task-name arrays the callers pass
NameSeqs == {<<"a">>, <<"b">>, <<"a", "b">>}

VARIABLES
    tasks,         \* this.tasks: name -> array of handlers (own keys only)
    allowedTasks,  \* this.allowedTasks: null or an array of names
    nextFn,        \* the next handler function the callers will register
    lastReg,       \* what the last registerTask / defineTasks call did
    call,          \* the locals of the run / pipe call in progress
    series,        \* the co.series / co.pipe iteration in progress
    inflight,      \* handler invocations started and awaited
    outcome,       \* what the caller of run / pipe has observed
    log,           \* the handler invocations of this call, in the order they started
    outs,          \* how those invocations ended for the call (settled, or timed out)
    abandoned,     \* invocations whose timer fired and that have not settled yet
    first          \* what the call before this one was and how it went

regVars == <<tasks, allowedTasks, nextFn, lastReg>>

callVars == <<call, series, inflight, outcome, log, outs, abandoned, first>>

vars == <<tasks, allowedTasks, nextFn, lastReg, call, series, inflight, outcome, log, outs,
          abandoned, first>>

\* ---------------------------------------------------------------- registry
NullAllowed == [isNull |-> TRUE, names |-> <<>>]

AllowedArr(ns) == [isNull |-> FALSE, names |-> ns]

\* the names of an array of names
NamesOf(ns) == {ns[i] : i \in DOMAIN ns}

\* mutant: the message lists this.allowedTasks
KnownNamesAllowedOnly(T, allowed) == NamesOf(allowed.names)

\* line 204: the names the message lists, Object.keys(this.tasks)
KnownNames(T, allowed) == DOMAIN T

\* the record of a registerTask / defineTasks call: its arguments, whether it threw,
\* the names its message lists, and what the registry was when it was made
RegRecord(op, name, args, threw, T, allowed) ==
    [op |-> op, name |-> name, args |-> args, threw |-> threw,
     message |-> IF threw THEN KnownNames(T, allowed) ELSE {},
     hadList |-> name \in DOMAIN T,
     allowActive |-> ~allowed.isNull,
     inAllowed |-> \E i \in DOMAIN allowed.names : allowed.names[i] = name]

NoReg == [op |-> "none", name |-> "", args |-> <<>>, threw |-> FALSE, message |-> {},
          hadList |-> FALSE, allowActive |-> FALSE, inAllowed |-> FALSE]

\* this.tasks[name] is truthy: the key exists (its value is always an array)
HasList(T, name) == name \in DOMAIN T

\* this.tasks[name] = list
SetList(T, name, list) == [n \in DOMAIN T \cup {name} |-> IF n = name THEN list ELSE T[n]]

\* mutant: the allow-list is not consulted
RegisterThrowsNever(T, allowed, name) == FALSE

\* mutant: names starting with pre- / post- pass the allow-list check
RegisterThrowsBareOnly(T, allowed, name) ==
    ~HasList(T, name) /\ ~allowed.isNull /\ name \in BareNames

\* registerTask, line 202-206: the call throws 'Task name ... not defined!'
RegisterThrows(T, allowed, name) == ~HasList(T, name) /\ ~allowed.isNull

\* registerTask, line 202-210, when it does not throw
RegisterInto(T, name, fn) ==
    LET T1 == IF ~HasList(T, name) THEN SetList(T, name, <<>>) ELSE T
    IN  SetList(T1, name, Append(T1[name], fn))

RegisterTask(name) ==
    /\ nextFn <= MaxRegs
    /\ IF RegisterThrows(tasks, allowedTasks, name)
       THEN /\ UNCHANGED <<tasks, allowedTasks, nextFn>>
            /\ lastReg' = RegRecord("registerTask", name, <<>>, TRUE, tasks, allowedTasks)
       ELSE /\ tasks' = RegisterInto(tasks, name, nextFn)
            /\ nextFn' = nextFn + 1
            /\ UNCHANGED allowedTasks
            /\ lastReg' = RegRecord("registerTask", name, <<>>, FALSE, tasks, allowedTasks)

\* mutant: the regPreTasks flag is ignored
DefinePreIgnored(T, task, regPreTasks) == T

\* defineTasks, line 225-227: the pre- list is (re)set to an empty array
DefinePre(T, task, regPreTasks) ==
    IF regPreTasks THEN SetList(T, PreName(task), <<>>) ELSE T

\* mutant: defineTasks does not create the list of the task
DefineMainSkipped(T, task) == T

\* defineTasks, line 229-231
DefineMain(T, task) ==
    IF ~HasList(T, task) THEN SetList(T, task, <<>>) ELSE T

\* defineTasks, line 234-236
DefinePost(T, task, regPostTasks) ==
    IF regPostTasks THEN SetList(T, PostName(task), <<>>) ELSE T

\* defineTasks, the loop of line 224-237 from element i on
RECURSIVE DefineLoop(_, _, _, _, _)
DefineLoop(T, names, i, regPreTasks, regPostTasks) ==
    IF i > Len(names) THEN T
    ELSE DefineLoop(DefinePost(DefineMain(DefinePre(T, names[i], regPreTasks), names[i]),
                               names[i], regPostTasks),
                    names, i + 1, regPreTasks, regPostTasks)

\* mutant: the names are pushed to the allow-list there is
DefineAllowedMerged(allowed, names) ==
    AllowedArr(allowed.names \o SelectSeq(names, LAMBDA n : n \notin NamesOf(allowed.names)))

\* defineTasks, line 223 and 232: a new array that gets every name pushed
DefineAllowed(allowed, names) == AllowedArr(names)

DefineTasks(names, regPreTasks, regPostTasks) ==
    /\ tasks' = DefineLoop(tasks, names, 1, regPreTasks, regPostTasks)
    /\ allowedTasks' = DefineAllowed(allowedTasks, names)
    /\ lastReg' = RegRecord("defineTasks", "", <<names, regPreTasks, regPostTasks>>, FALSE,
                          tasks, allowedTasks)
    /\ UNCHANGED nextFn

\* ---------------------------------------------------------------- JS values
\* A JavaScript value as the callers and handlers exchange it.  trace is the
\* list of handlers an object has been through.
JsVal(kind, s, n, names, trace) ==
    [kind |-> kind, s |-> s, n |-> n, names |-> names, trace |-> trace]

Undef == JsVal("undefined", "", 0, <<>>, <<>>)

Null == JsVal("null", "", 0, <<>>, <<>>)

Num(n) == JsVal("number", "", n, <<>>, <<>>)

Str(s) == JsVal("string", s, 0, <<>>, <<>>)

Arr(names) == JsVal("array", "", 0, names, <<>>)

Obj(s) == JsVal("object", s, 0, <<>>, <<>>)

\* !v is false
Truthy(v) ==
    \/ v.kind \in {"object", "array"}
    \/ v.kind = "number" /\ v.n # 0
    \/ v.kind = "string" /\ v.s # ""

\* the object handler fn returns when it is called with arg and succeeds
Ret(fn, arg) == JsVal("object", arg.s, arg.n, arg.names, Append(arg.trace, fn))

\* ---------------------------------------------------------------- call state
Err(kind, name, fn) == [kind |-> kind, name |-> name, fn |-> fn]

NoErr == Err("", "", 0)

NoOutcome == [state |-> "none", err |-> NoErr, report |-> <<>>, value |-> Undef]

Pending == [state |-> "pending", err |-> NoErr, report |-> <<>>, value |-> Undef]

\* the promise of run resolves with the report, line 110
ResolvedReport(res) == [state |-> "resolved", err |-> NoErr, report |-> res, value |-> Undef]

\* the promise of pipe resolves with the pipe value, line 184
ResolvedValue(v) == [state |-> "resolved", err |-> NoErr, report |-> <<>>, value |-> v]

\* an exception inside the generator rejects the promise co returned
Rejected(e) == [state |-> "rejected", err |-> e, report |-> <<>>, value |-> Undef]

\* an exception outside the generator reaches the caller as a synchronous throw
Thrown(e) == [state |-> "thrown", err |-> e, report |-> <<>>, value |-> Undef]

\* the locals of run / pipe: the arguments as given (argv) and as the code rebinds
\* them, the loop position (element ti, if-block ph) and the report so far; reg is
\* this.tasks as it was when the call was made (history, no action reads it)
NoCall == [kind |-> "none", argv |-> <<>>, tasks |-> Null, ctx |-> Undef, arg |-> Undef,
           timeout |-> Undef, ti |-> 0, ph |-> 0, res |-> <<>>, reg |-> <<>>]

\* no call has been made before this one
NoFirst == [kind |-> "none", argv |-> <<>>, outcome |-> NoOutcome, log |-> <<>>, outs |-> <<>>]

NoSeries == [list |-> <<>>, idx |-> 0, results |-> <<>>, value |-> Undef]

Invocation(fn, ctx, arg) == [fn |-> fn, ctx |-> ctx, arg |-> arg]

LogEntry(c, fn, arg) ==
    [ti |-> c.ti, ph |-> c.ph, fn |-> fn, ctx |-> c.ctx, arg |-> arg]

\* ---------------------------------------------------------------- phases
\* phases of a task, in the order of the three if-blocks of the loop body
PhaseCount == 3

\* mutant: the pre- and post- blocks look up each other's key
PhaseNameSwapped(task, ph) ==
    IF ph = 0 THEN PostName(task) ELSE IF ph = 1 THEN task ELSE PreName(task)

\* the key the if-block ph of the loop body looks up: line 72, 84, 96 (149, 160, 171)
PhaseName(task, ph) ==
    IF ph = 0 THEN PreName(task) ELSE IF ph = 1 THEN task ELSE PostName(task)

\* mutant: the check for an undefined task name is missing
TaskDefinedAlways(T, task) == TRUE

\* line 68 / 145: the check that throws 'Task name ... not defined!' passes
TaskDefined(T, task) == HasList(T, task)

\* line 72, 84, 96: this.tasks[name] && this.tasks[name].length
PhaseRuns(T, name) == HasList(T, name) /\ Len(T[name]) > 0

\* for (let task of tasks), line 65 / 144: tasks has an iterator
Iterable(v) == v.kind \in {"array", "string"}

\* mutant: every requested name is checked before the first handler is invoked
RECURSIVE ScanEager(_, _, _, _)
ScanEager(T, names, ti, ph) ==
    IF \E i \in 1..Len(names) : ~HasList(T, names[i])
    THEN [kind |-> "unknown",
          ti |-> CHOOSE i \in 1..Len(names) :
                     ~HasList(T, names[i]) /\ \A j \in 1..i - 1 : HasList(T, names[j]),
          ph |-> 0]
    ELSE IF ti > Len(names) THEN [kind |-> "done", ti |-> ti, ph |-> 0]
    ELSE IF PhaseRuns(T, PhaseName(names[ti], ph)) THEN [kind |-> "phase", ti |-> ti, ph |-> ph]
    ELSE IF ph + 1 < PhaseCount THEN ScanEager(T, names, ti, ph + 1)
    ELSE ScanEager(T, names, ti + 1, 0)

\* Where the loop of line 65-108 (144-182) stops next when it is about to enter
\* if-block ph of element ti: at a phase whose handlers it runs, at an undefined
\* task name, or behind the last element.
RECURSIVE Scan(_, _, _, _)
Scan(T, names, ti, ph) ==
    IF ti > Len(names) THEN [kind |-> "done", ti |-> ti, ph |-> 0]
    ELSE IF ph = 0 /\ ~TaskDefined(T, names[ti]) THEN [kind |-> "unknown", ti |-> ti, ph |-> 0]
    ELSE IF PhaseRuns(T, PhaseName(names[ti], ph)) THEN [kind |-> "phase", ti |-> ti, ph |-> ph]
    ELSE IF ph + 1 < PhaseCount THEN Scan(T, names, ti, ph + 1)
    ELSE Scan(T, names, ti + 1, 0)

\* the if-block after block ph of element ti
AfterPhase(c) ==
    IF c.ph + 1 < PhaseCount THEN [c EXCEPT !.ph = c.ph + 1]
    ELSE [c EXCEPT !.ti = c.ti + 1, !.ph = 0]

\* ---------------------------------------------------------------- co-utils
\* co.series and co.pipe belong to co-utils, which src/ does not hold; they are
\* modelled after spec.md section 4.3 to 4.5.
\* each handler is raced against a timer when timeout is a positive number
TimeoutEnabled(timeout) == timeout.kind = "number" /\ timeout.n > 0

\* what a handler settles with: the object it returns, or null
Settled(inv, how) == IF how = "value" THEN Ret(inv.fn, inv.arg) ELSE Null

\* a handler that fails makes co.series / co.pipe reject at once ...
CoRejects(how) == how = "error"

\* ... with the failure of the handler as it is
CoError(inv) == Err("HandlerFailure", "", inv.fn)

\* the failure of an invocation whose timer fired
CoTimeout(inv) == Err("Timeout", "", inv.fn)

\* the list has a handler after the one that settled
CoHasNext(sr) == sr.idx < Len(sr.list)

\* co.series calls every handler with the same arguments and collects the results
\* in the order of the list
CoSeriesArg(c, v) == c.arg

CoSeriesResults(sr, v) == Append(sr.results, v)

\* co.pipe calls a handler with what the handler before it returned
CoPipeArg(c, v) == v

\* mutant: the call works on the registry as it was when the call was made
ResumeSnapshot(c, rest, lg) ==
    LET s == Scan(c.reg, c.tasks.names, c.ti, c.ph)
        c1 == [c EXCEPT !.ti = s.ti, !.ph = s.ph]
    IN  IF s.kind = "done"
        THEN /\ call' = c1
             /\ series' = NoSeries
             /\ inflight' = rest
             /\ outcome' = IF c.kind = "run" THEN ResolvedReport(c.res) ELSE ResolvedValue(c.arg)
             /\ log' = lg
        ELSE IF s.kind = "unknown"
        THEN /\ call' = c1
             /\ series' = NoSeries
             /\ inflight' = rest
             /\ outcome' = Rejected(Err("UnknownTask", c.tasks.names[s.ti], 0))
             /\ log' = lg
        ELSE LET list == c.reg[PhaseName(c.tasks.names[s.ti], s.ph)]
             IN  /\ call' = c1
                 /\ series' = [list |-> list, idx |-> 1, results |-> <<>>, value |-> c.arg]
                 /\ inflight' = rest \cup {Invocation(list[1], c.ctx, c.arg)}
                 /\ log' = Append(lg, LogEntry(c1, list[1], c.arg))
                 /\ outcome' = Pending

\* what the generator does when it resumes at if-block c.ph of element c.ti (or
\* starts): it runs on to the next handler it has to wait for, or to its end.
\* rest: the invocations still awaited; lg: the invocations of this call so far.
Resume(c, rest, lg) ==
    LET s == Scan(tasks, c.tasks.names, c.ti, c.ph)
        c1 == [c EXCEPT !.ti = s.ti, !.ph = s.ph]
    IN  IF s.kind = "done"
        THEN /\ call' = c1
             /\ series' = NoSeries
             /\ inflight' = rest
             /\ outcome' = IF c.kind = "run" THEN ResolvedReport(c.res) ELSE ResolvedValue(c.arg)
             /\ log' = lg
        ELSE IF s.kind = "unknown"
        THEN /\ call' = c1
             /\ series' = NoSeries
             /\ inflight' = rest
             /\ outcome' = Rejected(Err("UnknownTask", c.tasks.names[s.ti], 0))
             /\ log' = lg
        ELSE LET list == tasks[PhaseName(c.tasks.names[s.ti], s.ph)]
             IN  /\ call' = c1
                 /\ series' = [list |-> list, idx |-> 1, results |-> <<>>, value |-> c.arg]
                 /\ inflight' = rest \cup {Invocation(list[1], c.ctx, c.arg)}
                 /\ log' = Append(lg, LogEntry(c1, list[1], c.arg))
                 /\ outcome' = Pending

\* mutant: the exception is caught and the loop goes on with the next if-block
FailCaught(c, rest, lg, e) == Resume(AfterPhase(c), rest, lg)

\* mutant: the exception is caught and the report so far is returned
FailReturnsPartial(c, rest, lg, e) ==
    /\ call' = c
    /\ series' = NoSeries
    /\ inflight' = rest
    /\ outcome' = ResolvedReport(c.res)
    /\ log' = lg

\* the generator ends with an exception e
Fail(c, rest, lg, e) ==
    /\ call' = c
    /\ series' = NoSeries
    /\ inflight' = rest
    /\ outcome' = Rejected(e)
    /\ log' = lg

\* ---------------------------------------------------------------- run
\* line 56-61: the task list run iterates
RunTasks(tasksArg, allowed) ==
    IF ~Truthy(tasksArg)
    THEN IF allowed.isNull THEN Null ELSE Arr(allowed.names)
    ELSE IF tasksArg.kind = "string" THEN Arr(<<tasksArg.s>>)
    ELSE tasksArg

\* line 78-81, 90-93, 102-105: the report entry of a phase
ReportEntry(name, results) == [task |-> name, results |-> results]

\* mutant: res.unshift(entry)
PushEntryFront(c, entry) == [c EXCEPT !.res = <<entry>> \o c.res]

\* line 78, 90, 102: res.push(entry)
PushEntry(c, entry) == [c EXCEPT !.res = Append(c.res, entry)]

\* no run / pipe call has been made yet: a behaviour is the setup of the registry
\* followed by one call
Idle == call.kind = "none"

\* mutant: the call uses up the allow-list (tasks = this.allowedTasks is emptied)
CallEmptiesAllowList ==
    /\ allowedTasks' = IF allowedTasks.isNull THEN allowedTasks ELSE AllowedArr(<<>>)
    /\ UNCHANGED <<tasks, nextFn>>

\* line 55-186: run and pipe assign nothing to this.tasks, to one of its lists or to
\* this.allowedTasks
CallKeepsRegistry == UNCHANGED <<tasks, allowedTasks, nextFn>>

\* run(tasks, ctx, args, timeout) up to its first suspension, line 55-112
Run(tasksArg, ctx, args, timeout) ==
    /\ LET c == [kind |-> "run", argv |-> <<tasksArg, ctx, args, timeout>>,
                 tasks |-> RunTasks(tasksArg, allowedTasks), ctx |-> ctx,
                 arg |-> args, timeout |-> timeout, ti |-> 1, ph |-> 0, res |-> <<>>,
                 reg |-> tasks]
       IN  IF ~Iterable(c.tasks)
           THEN Fail(c, {}, <<>>, Err("TypeError", "", 0))
           ELSE Resume(c, {}, <<>>)
    /\ outs' = <<>>
    /\ lastReg' = NoReg
    /\ CallKeepsRegistry
    /\ UNCHANGED abandoned

\* the awaited handler of a phase of run settles, and run goes on: line 77-81,
\* 89-93, 101-105
SettleSeries(inv, how) ==
    /\ call.kind = "run"
    /\ outcome.state = "pending"
    /\ inv \in inflight
    /\ LET rest == inflight \ {inv}
           v == Settled(inv, how)
       IN  IF CoRejects(how)
           THEN /\ Fail(call, rest, log, CoError(inv))
                /\ outs' = Append(outs, [fn |-> inv.fn, how |-> how, value |-> Undef])
           ELSE /\ outs' = Append(outs, [fn |-> inv.fn, how |-> how, value |-> v])
                /\ IF CoHasNext(series)
                   THEN LET fn == series.list[series.idx + 1]
                        IN  /\ series' = [series EXCEPT !.idx = series.idx + 1,
                                                        !.results = CoSeriesResults(series, v)]
                            /\ inflight' = rest \cup {Invocation(fn, call.ctx, CoSeriesArg(call, v))}
                            /\ log' = Append(log, LogEntry(call, fn, CoSeriesArg(call, v)))
                            /\ UNCHANGED <<call, outcome>>
                   ELSE LET name == PhaseName(call.tasks.names[call.ti], call.ph)
                            entry == ReportEntry(name, CoSeriesResults(series, v))
                        IN  Resume(AfterPhase(PushEntry(call, entry)), rest, log)
    /\ UNCHANGED <<regVars, abandoned, first>>

\* ---------------------------------------------------------------- pipe
\* line 122-136: what pipe makes of its four arguments
PipeArgs(tasksArg, ctxArg, pipeArgArg, timeoutArg, allowed) ==
    LET t1 == IF tasksArg.kind = "string" THEN Arr(<<tasksArg.s>>) ELSE tasksArg
        shift == ~Truthy(t1) \/ t1.kind # "array"
        a2 == IF shift
              THEN [tasks |-> IF allowed.isNull THEN Null ELSE Arr(allowed.names),
                    ctx |-> t1, pipeArg |-> ctxArg, timeout |-> pipeArgArg]
              ELSE [tasks |-> t1, ctx |-> ctxArg, pipeArg |-> pipeArgArg, timeout |-> timeoutArg]
    IN  IF a2.pipeArg.kind \in {"number", "undefined"}
        THEN [a2 EXCEPT !.pipeArg = a2.ctx, !.ctx = Null]
        ELSE a2

\* line 139: pipe throws 'Set allowedTasks option or use tasks argument!'
PipeThrows(tasksVal) == ~Truthy(tasksVal)

\* mutant: only undefined is taken for an invalid pipe value
PipeValueInvalidUndefinedOnly(v) == v.kind = "undefined"

\* mutant: the value of a phase is not checked
PipeValueInvalidNever(v) == FALSE

\* line 155, 166, 177: the phase's value makes pipe throw 'Pipe error. ...'
PipeValueInvalid(v) == ~Truthy(v)

\* mutant: the value of the phase is not assigned to pipeArg
PipeAssignDropped(c, v) == c

\* line 154, 165, 176: pipeArg = yield co.pipe(...)
PipeAssign(c, v) == [c EXCEPT !.arg = v]

\* pipe(tasks, ctx, pipeArg, timeout) up to its first suspension, line 121-186
Pipe(tasksArg, ctxArg, pipeArgArg, timeoutArg) ==
    /\ LET a == PipeArgs(tasksArg, ctxArg, pipeArgArg, timeoutArg, allowedTasks)
           c == [kind |-> "pipe", argv |-> <<tasksArg, ctxArg, pipeArgArg, timeoutArg>>,
                 tasks |-> a.tasks, ctx |-> a.ctx, arg |-> a.pipeArg,
                 timeout |-> a.timeout, ti |-> 1, ph |-> 0, res |-> <<>>, reg |-> tasks]
       IN  IF PipeThrows(a.tasks)
           THEN /\ call' = c
                /\ series' = NoSeries
                /\ inflight' = {}
                /\ outcome' = Thrown(Err("NoTasksSpecified", "", 0))
                /\ log' = <<>>
           ELSE Resume(c, {}, <<>>)
    /\ outs' = <<>>
    /\ lastReg' = NoReg
    /\ CallKeepsRegistry
    /\ UNCHANGED abandoned

\* the awaited handler of a phase of pipe settles, and pipe goes on: line 154-157,
\* 165-168, 176-179
SettlePipe(inv, how) ==
    /\ call.kind = "pipe"
    /\ outcome.state = "pending"
    /\ inv \in inflight
    /\ LET rest == inflight \ {inv}
           v == Settled(inv, how)
       IN  IF CoRejects(how)
           THEN /\ Fail(call, rest, log, CoError(inv))
                /\ outs' = Append(outs, [fn |-> inv.fn, how |-> how, value |-> Undef])
           ELSE /\ outs' = Append(outs, [fn |-> inv.fn, how |-> how, value |-> v])
                /\ IF CoHasNext(series)
                   THEN LET fn == series.list[series.idx + 1]
                        IN  /\ series' = [series EXCEPT !.idx = series.idx + 1, !.value = v]
                            /\ inflight' = rest \cup {Invocation(fn, call.ctx, CoPipeArg(call, v))}
                            /\ log' = Append(log, LogEntry(call, fn, CoPipeArg(call, v)))
                            /\ UNCHANGED <<call, outcome>>
                   ELSE IF PipeValueInvalid(v)
                   THEN Fail(PipeAssign(call, v), rest, log, Err("InvalidPipeValue", "", 0))
                   ELSE Resume(AfterPhase(PipeAssign(call, v)), rest, log)
    /\ UNCHANGED <<regVars, abandoned, first>>

\* the timer of the awaited handler fires before the handler settles: co.series /
\* co.pipe reject, and so does the call (line 77, 154: nothing catches)
TimerFire(inv) ==
    /\ outcome.state = "pending"
    /\ inv \in inflight
    /\ TimeoutEnabled(call.timeout)
    /\ Fail(call, inflight \ {inv}, log, CoTimeout(inv))
    /\ outs' = Append(outs, [fn |-> inv.fn, how |-> "timeout", value |-> Undef])
    /\ abandoned' = abandoned \cup {inv}
    /\ UNCHANGED <<regVars, first>>

\* a handler whose timer has fired settles at last: what it settles with is
\* discarded (spec.md section 4.3)
LateSettle(inv, how) ==
    /\ inv \in abandoned
    /\ abandoned' = abandoned \ {inv}
    /\ UNCHANGED <<regVars, call, series, inflight, outcome, log, outs, first>>

\* ---------------------------------------------------------------- specifications
\* the arguments the callers pass
Ctx == Obj("ctx")

Args == Obj("args")

Data == Obj("data")

\* a positive timeout argument
Timeout == Num(TimeoutMs)

\* the ways the callers call run(tasks, ctx, args, timeout): run(undefined, ctx,
\* args), run('a', ctx, args, timeout), run(['a','b'], ctx, args) and the same
\* with a timeout
RunCalls ==
    {<<Undef, Ctx, Args, Undef>>,
     <<Str("a"), Ctx, Args, Timeout>>,
     <<Arr(<<"a", "b">>), Ctx, Args, Undef>>,
     <<Arr(<<"a", "b">>), Ctx, Args, Timeout>>}

\* the ways the callers call pipe(tasks, ctx, pipeArg, timeout):
\* with all four arguments; without ctx, pipe(tasks, data); without tasks,
\* pipe(ctx, data, timeout), pipe(ctx, data) and pipe(data); with a number as the
\* pipe value; with null as the context; with undefined in the place of the tasks,
\* pipe(undefined, ctx, data); with null as the pipe value; with nothing
PipeCalls ==
    {<<Str("a"), Ctx, Data, Timeout>>,
     <<Arr(<<"a", "b">>), Ctx, Data, Undef>>,
     <<Arr(<<"a", "b">>), Ctx, Data, Timeout>>}
    \cup {<<Arr(<<"a", "b">>), Data, Undef, Undef>>,
          <<Ctx, Data, Timeout, Undef>>,
          <<Ctx, Data, Undef, Undef>>,
          <<Data, Undef, Undef, Undef>>,
          <<Arr(<<"a", "b">>), Ctx, Num(TimeoutMs), Undef>>,
          <<Arr(<<"a", "b">>), Null, Data, Undef>>,
          <<Undef, Ctx, Data, Undef>>,
          <<Arr(<<"a", "b">>), Ctx, Null, Undef>>,
          <<Undef, Undef, Undef, Undef>>}

\* how a handler settles: it returns an object, it returns null, it fails
Hows == {"value", "null", "error"}

Init ==
    /\ tasks = <<>>
    /\ allowedTasks = NullAllowed
    /\ nextFn = 1
    /\ lastReg = NoReg
    /\ call = NoCall
    /\ series = NoSeries
    /\ inflight = {}
    /\ outcome = NoOutcome
    /\ log = <<>>
    /\ outs = <<>>
    /\ abandoned = {}
    /\ first = NoFirst

Register == \E name \in AllNames : RegisterTask(name) /\ UNCHANGED callVars

Define == \E names \in NameSeqs, regPreTasks \in BOOLEAN, regPostTasks \in BOOLEAN :
              DefineTasks(names, regPreTasks, regPostTasks) /\ UNCHANGED callVars

CallRun == Idle /\ UNCHANGED first /\ \E a \in RunCalls : Run(a[1], a[2], a[3], a[4])

CallPipe == Idle /\ UNCHANGED first /\ \E a \in PipeCalls : Pipe(a[1], a[2], a[3], a[4])

\* the handlers are deterministic: an invocation with the function, context and
\* argument of an invocation of the call before ends as that one did
Deterministic(inv, how) ==
    \A i \in 1..Len(first.outs) :
        (first.log[i].fn = inv.fn /\ first.log[i].ctx = inv.ctx /\ first.log[i].arg = inv.arg)
            => first.outs[i].how = how

HandlerSettlesSeries ==
    \E inv \in inflight, how \in {"value", "error"} :
        Deterministic(inv, how) /\ SettleSeries(inv, how)

HandlerSettlesPipe ==
    \E inv \in inflight, how \in Hows : Deterministic(inv, how) /\ SettlePipe(inv, how)

TimerFires == \E inv \in inflight : Deterministic(inv, "timeout") /\ TimerFire(inv)

LateSettles == \E inv \in abandoned, how \in Hows : LateSettle(inv, how)

\* the registry is set up before the run / pipe call (spec.md section 3, Lifecycle)
SetupRegister == Idle /\ Register

SetupDefine == Idle /\ Define

Next ==
    \/ SetupRegister
    \/ SetupDefine
    \/ CallRun
    \/ CallPipe
    \/ HandlerSettlesSeries
    \/ HandlerSettlesPipe
    \/ TimerFires
    \/ LateSettles

Spec == Init /\ [][Next]_vars

\* the call that has ended is made once more, with the same arguments
RepeatCall ==
    /\ call.kind \in {"run", "pipe"}
    /\ outcome.state \in {"resolved", "rejected", "thrown"}
    /\ first.kind = "none"
    /\ first' = [kind |-> call.kind, argv |-> call.argv, outcome |-> outcome,
                 log |-> log, outs |-> outs]
    /\ IF call.kind = "run"
       THEN Run(call.argv[1], call.argv[2], call.argv[3], call.argv[4])
       ELSE Pipe(call.argv[1], call.argv[2], call.argv[3], call.argv[4])

\* the calls that are repeated: run(['a','b'], ctx, args, timeout), run(undefined,
\* ctx, args), pipe(['a','b'], ctx, data, timeout), pipe(ctx, data)
RepeatRunCalls == {<<Arr(<<"a", "b">>), Ctx, Args, Timeout>>, <<Undef, Ctx, Args, Undef>>}

RepeatPipeCalls == {<<Arr(<<"a", "b">>), Ctx, Data, Timeout>>, <<Ctx, Data, Undef, Undef>>}

FirstRun ==
    Idle /\ UNCHANGED first /\ \E a \in RepeatRunCalls : Run(a[1], a[2], a[3], a[4])

FirstPipe ==
    Idle /\ UNCHANGED first /\ \E a \in RepeatPipeCalls : Pipe(a[1], a[2], a[3], a[4])

RepeatNext ==
    \/ SetupRegister
    \/ SetupDefine
    \/ FirstRun
    \/ FirstPipe
    \/ HandlerSettlesSeries
    \/ HandlerSettlesPipe
    \/ TimerFires
    \/ RepeatCall

\* one call, and the same call once more
SpecRepeat == Init /\ [][RepeatNext]_vars

\* the name of the phase whose handlers are being run
RunningPhase == PhaseName(call.tasks.names[call.ti], call.ph)

\* a handler of run / pipe is awaited and no registerTask / defineTasks call has
\* been made since the call started: one such call is interleaved with a call
Interleavable == outcome.state = "pending" /\ lastReg.op = "none"

\* registerTask / defineTasks called while a handler of run / pipe is awaited.
\* What co.series / co.pipe do with a list that grows while they go through it is
\* not specified: no handler is registered under the phase that is being run.
ConcRegister ==
    /\ Interleavable
    /\ \E name \in AllNames \ {RunningPhase} : RegisterTask(name)
    /\ UNCHANGED callVars

ConcDefine == Interleavable /\ Define

\* the calls in progress while the registry changes: run(['a','b'], ctx, args) and
\* pipe(['a','b'], ctx, data)
ConcRunCalls == {<<Arr(<<"a", "b">>), Ctx, Args, Undef>>}

ConcPipeCalls == {<<Arr(<<"a", "b">>), Ctx, Data, Undef>>}

ConcRun ==
    Idle /\ UNCHANGED first /\ \E a \in ConcRunCalls : Run(a[1], a[2], a[3], a[4])

ConcPipe ==
    Idle /\ UNCHANGED first /\ \E a \in ConcPipeCalls : Pipe(a[1], a[2], a[3], a[4])

ConcNext ==
    \/ SetupRegister
    \/ SetupDefine
    \/ ConcRegister
    \/ ConcDefine
    \/ ConcRun
    \/ ConcPipe
    \/ HandlerSettlesSeries
    \/ HandlerSettlesPipe

\* the registry changes while a call is in progress
SpecConc == Init /\ [][ConcNext]_vars

\* the registry operations alone
RegNext == Register \/ Define

SpecReg == Init /\ [][RegNext]_vars

\* ================================================================ properties
\* what the registry says, read independently of the loop of run / pipe
ListOf(T, name) == IF name \in DOMAIN T THEN T[name] ELSE <<>>

RECURSIVE Flatten(_)
Flatten(ss) == IF Len(ss) = 0 THEN <<>> ELSE Head(ss) \o Flatten(Tail(ss))

\* the phase names of the requested tasks: task by task, pre, main, post
PhaseSeq(names) == Flatten([i \in 1..Len(names) |-> <<PreName(names[i]), names[i], PostName(names[i])>>])

NonEmptyPhases(T, names) == SelectSeq(PhaseSeq(names), LAMBDA n : Len(ListOf(T, n)) > 0)

\* the report of a run in which every handler returns its object
ExpectedReport(T, names, args) ==
    LET ne == NonEmptyPhases(T, names)
    IN  [i \in 1..Len(ne) |->
            [task |-> ne[i], results |-> [k \in 1..Len(T[ne[i]]) |-> Ret(T[ne[i]][k], args)]]]

\* the handlers of the requested tasks in the order task, phase, registration
ExpectedOrder(T, names) ==
    LET ps == PhaseSeq(names) IN Flatten([i \in 1..Len(ps) |-> ListOf(T, ps[i])])

IsPrefix(p, q) == Len(p) <= Len(q) /\ \A i \in 1..Len(p) : p[i] = q[i]

Requested == IF Iterable(call.tasks) THEN call.tasks.names ELSE <<>>

AllKnown == \A i \in 1..Len(Requested) : Requested[i] \in DOMAIN tasks

Finished == outcome.state \in {"resolved", "rejected", "thrown"}

\* some handler failed or timed out
HandlerFailed == \E i \in 1..Len(outs) : outs[i].how \in {"error", "timeout"}

\* C1: a run over known task names whose handlers all succeed resolves to a report
\* with exactly one entry per non-empty phase, task by task and pre, main, post
\* within a task, each entry holding the results of the phase's handlers in
\* registration order; a phase without handlers has no entry.
C1_RunReport ==
    (call.kind = "run" /\ Iterable(call.tasks) /\ AllKnown /\ Finished /\ ~HandlerFailed)
        => /\ outcome.state = "resolved"
           /\ outcome.report = ExpectedReport(tasks, Requested, call.arg)
           /\ Len(outcome.report) = Len(NonEmptyPhases(tasks, Requested))

\* a run over two tasks resolved with two entries while a requested phase has a list
\* without handlers
C1_Witness ==
    /\ call.kind = "run"
    /\ outcome.state = "resolved"
    /\ Len(Requested) = 2
    /\ Len(outcome.report) = 2
    /\ outcome.report[1].task # outcome.report[2].task
    /\ \E i \in 1..Len(PhaseSeq(Requested)) :
           /\ PhaseSeq(Requested)[i] \in DOMAIN tasks
           /\ Len(tasks[PhaseSeq(Requested)[i]]) = 0

\* C2: in run and in pipe the handlers are invoked in the order (task in the
\* requested sequence, phase pre-main-post, registration in the phase), none is
\* skipped, a handler starts only when the one before has settled, and at most one
\* is awaited at any time.
C2_FifoOneAtATime ==
    call.kind \in {"run", "pipe"} =>
        /\ IsPrefix([i \in 1..Len(log) |-> log[i].fn], ExpectedOrder(tasks, Requested))
        /\ Cardinality(inflight) <= 1
        /\ Len(log) = Len(outs) + Cardinality(inflight)
        /\ \A i \in 1..Len(outs) : outs[i].fn = log[i].fn
        /\ \A i \in 1..Len(log) - 1 : outs[i].how \in {"value", "null"}

\* two handlers of different phases have been invoked, the second one being awaited
C2_Witness ==
    /\ call.kind = "pipe"
    /\ Len(log) = 2
    /\ <<log[1].ti, log[1].ph>> # <<log[2].ti, log[2].ph>>
    /\ Cardinality(inflight) = 1

\* the value pipe starts from: the argument line 122-136 binds pipeArg to
InitialValue ==
    PipeArgs(call.argv[1], call.argv[2], call.argv[3], call.argv[4], allowedTasks).pipeArg

\* pipe(tasks, ctx, value, timeout) with a task list and an object as the value
FullForm == call.argv[1].kind \in {"array", "string"} /\ call.argv[3].kind = "object"

\* every handler that has settled returned a valid value
AllValid == \A i \in 1..Len(outs) : outs[i].how = "value"

\* C3: in a pipe over known tasks whose handlers all succeed with a valid value,
\* the first handler receives the initial value, every other handler the output of
\* the handler invoked just before it, also across phases and tasks, and pipe
\* resolves to the output of the last handler invoked; phases without handlers
\* leave the value as it is.
C3_PipeChain ==
    (call.kind = "pipe" /\ outcome.state # "thrown" /\ AllKnown /\ AllValid) =>
        /\ FullForm => InitialValue = call.argv[3]
        /\ \A i \in 1..Len(log) :
               log[i].arg = IF i = 1 THEN InitialValue ELSE outs[i - 1].value
        /\ outcome.state # "rejected"
        /\ outcome.state = "resolved" =>
               /\ [i \in 1..Len(log) |-> log[i].fn] = ExpectedOrder(tasks, Requested)
               /\ outcome.value = IF Len(outs) = 0 THEN InitialValue
                                  ELSE outs[Len(outs)].value

\* a pipe resolved after two handlers of different phases, the requested tasks
\* having a phase with a list without handlers
C3_Witness ==
    /\ call.kind = "pipe"
    /\ FullForm
    /\ outcome.state = "resolved"
    /\ Len(log) = 2
    /\ <<log[1].ti, log[1].ph>> # <<log[2].ti, log[2].ph>>
    /\ outcome.value.trace = <<log[1].fn, log[2].fn>>
    /\ \E i \in 1..Len(PhaseSeq(Requested)) :
           /\ PhaseSeq(Requested)[i] \in DOMAIN tasks
           /\ Len(tasks[PhaseSeq(Requested)[i]]) = 0

\* the name of the phase invocation i of the log belongs to
LogPhase(i) == PhaseName(Requested[log[i].ti], log[i].ph)

\* invocation i is that of the last handler of its phase's list
LastOfPhase(i) == log[i].fn = tasks[LogPhase(i)][Len(tasks[LogPhase(i)])]

\* C4 as claimed: once a pipe handler has returned null, at any position of its
\* phase's list, the pipe call ends rejected with InvalidPipeValue.
C4_AnyPositionRejects ==
    (call.kind = "pipe" /\ Finished /\ ~HandlerFailed
        /\ \E i \in 1..Len(outs) : outs[i].how = "null")
        => outcome.state = "rejected" /\ outcome.err.kind = "InvalidPipeValue"

\* C4 amended: a pipe handler that returns null as the last handler of its phase's
\* list makes pipe reject with InvalidPipeValue, and no handler of a later phase or
\* task is invoked; the null of an earlier handler of the list is the argument of
\* the next handler of the list.
C4_LastOfPhaseRejects ==
    call.kind = "pipe" =>
        \A i \in 1..Len(outs) :
            outs[i].how = "null" =>
                IF LastOfPhase(i)
                THEN /\ outcome.state = "rejected"
                     /\ outcome.err.kind = "InvalidPipeValue"
                     /\ Len(log) = i
                     /\ inflight = {}
                ELSE /\ Len(log) > i
                     /\ log[i + 1].arg = Null
                     /\ <<log[i + 1].ti, log[i + 1].ph>> = <<log[i].ti, log[i].ph>>

\* the only handler of a phase returned null and pipe rejected while a later phase
\* of the requested tasks has a handler
C4_Witness ==
    /\ call.kind = "pipe"
    /\ Len(outs) = 1
    /\ outs[1].how = "null"
    /\ LastOfPhase(1)
    /\ outcome.err.kind = "InvalidPipeValue"
    /\ Len(ExpectedOrder(tasks, Requested)) > 1

\* the call ended because of a handler or of the pipe value, not of a task name
EndedEarly == HandlerFailed \/ outcome.err.kind = "InvalidPipeValue"

\* C5: run and pipe reject with UnknownTask exactly when they come to a requested
\* name that has no list at all: a name with a list without handlers passes, a
\* name without a list fails even when its pre- / post- lists exist, and a call
\* that no handler failure or invalid pipe value ends before fails if and only if
\* some requested name has no list.
C5_UnknownTask ==
    (call.kind \in {"run", "pipe"} /\ Iterable(call.tasks)) =>
        /\ outcome.err.kind = "UnknownTask" =>
               /\ outcome.state = "rejected"
               /\ outcome.err.name = Requested[call.ti]
               /\ Requested[call.ti] \notin DOMAIN tasks
               /\ \A i \in 1..call.ti - 1 : Requested[i] \in DOMAIN tasks
        /\ (Finished /\ ~EndedEarly) => (outcome.err.kind = "UnknownTask" <=> ~AllKnown)

\* a call rejected with UnknownTask for a name whose pre- list has a handler, after
\* passing a name whose list has no handlers
C5_Witness ==
    /\ call.kind \in {"run", "pipe"}
    /\ outcome.err.kind = "UnknownTask"
    /\ call.ti = 2
    /\ Len(tasks[Requested[1]]) = 0
    /\ PreName(Requested[2]) \in DOMAIN tasks
    /\ Len(tasks[PreName(Requested[2])]) > 0

\* C9: in run the first handler failure, an error of the handler or a timeout,
\* rejects the call with that very failure, no handler is invoked after the one
\* that failed, and the caller gets no report.
C9_RunFailsFast ==
    call.kind = "run" =>
        \A i \in 1..Len(outs) :
            outs[i].how \in {"error", "timeout"} =>
                /\ outcome.state = "rejected"
                /\ outcome.err = Err(IF outs[i].how = "error" THEN "HandlerFailure" ELSE "Timeout",
                                     "", outs[i].fn)
                /\ outcome.report = <<>>
                /\ i = Len(log)
                /\ inflight = {}

\* a handler failed after a phase had been completed and reported, while a later
\* phase still has a handler to run
C9_Witness ==
    /\ call.kind = "run"
    /\ Len(call.res) = 1
    /\ Len(outs) = 2
    /\ outs[2].how = "error"
    /\ outcome.state = "rejected"

\* no task names are given: run without its first argument, pipe without a task
\* list as its first argument
TasksOmitted ==
    \/ call.kind = "run" /\ call.argv[1].kind = "undefined"
    \/ call.kind = "pipe" /\ call.argv[1].kind \notin {"array", "string"}

\* C10: with the task names omitted and no allow-list defined, run and pipe fail
\* with NoTasksSpecified, observed as a rejected promise.
C10_NoTasksRejected ==
    (TasksOmitted /\ allowedTasks.isNull)
        => outcome.state = "rejected" /\ outcome.err.kind = "NoTasksSpecified"

\* what the code does there: run rejects with the TypeError of iterating null, and
\* pipe throws NoTasksSpecified before it returns a promise
C10_WhatTheCodeDoes ==
    (TasksOmitted /\ allowedTasks.isNull) =>
        IF call.kind = "run"
        THEN outcome.state = "rejected" /\ outcome.err.kind = "TypeError"
        ELSE outcome.state = "thrown" /\ outcome.err.kind = "NoTasksSpecified"

\* ---------------------------------------------------------------- registry
PhaseNames == AllNames \ BareNames

RegisteredUnderAllowList == lastReg.op = "registerTask" /\ lastReg.allowActive

\* C6 as claimed: with an allow-list in place, every registerTask call for a bare
\* name that is not in the allow-list fails.
C6_OutsideAllowListFails ==
    (RegisteredUnderAllowList /\ lastReg.name \in BareNames /\ ~lastReg.inAllowed)
        => lastReg.threw

\* C6 amended: with an allow-list in place, a registerTask call for a bare name
\* that is not in the allow-list fails unless the name already has a handler list
\* (it was registered before the allow-list was defined, or an earlier defineTasks
\* named it); then the handler is appended to that list.
C6_UnknownOutsideAllowListFails ==
    (RegisteredUnderAllowList /\ lastReg.name \in BareNames /\ ~lastReg.inAllowed)
        => /\ lastReg.threw <=> ~lastReg.hadList
           /\ ~lastReg.threw => tasks[lastReg.name][Len(tasks[lastReg.name])] = nextFn - 1

\* a bare name outside the allow-list and without a list has been refused
C6_Witness ==
    /\ RegisteredUnderAllowList
    /\ lastReg.name \in BareNames
    /\ ~lastReg.inAllowed
    /\ ~lastReg.hadList
    /\ lastReg.threw

\* C7 as claimed: with an allow-list in place, registering under pre-<t> or
\* post-<t> succeeds whatever flags defineTasks was called with.
C7_PhaseNamesExempt ==
    (RegisteredUnderAllowList /\ lastReg.name \in PhaseNames) => ~lastReg.threw

\* C7 amended: with an allow-list in place, registering under pre-<t> or post-<t>
\* succeeds only when that list already exists, and fails otherwise; defineTasks
\* creates the pre- (post-) lists of the names it is given when it is called with
\* regPreTasks (regPostTasks) set.
C7_PhaseNamesNeedTheirList ==
    /\ (RegisteredUnderAllowList /\ lastReg.name \in PhaseNames)
           => (lastReg.threw <=> ~lastReg.hadList)
    /\ lastReg.op = "defineTasks" =>
           \A i \in 1..Len(lastReg.args[1]) :
               /\ lastReg.args[2] => ListOf(tasks, PreName(lastReg.args[1][i])) = <<>>
                                     /\ PreName(lastReg.args[1][i]) \in DOMAIN tasks
               /\ lastReg.args[3] => ListOf(tasks, PostName(lastReg.args[1][i])) = <<>>
                                     /\ PostName(lastReg.args[1][i]) \in DOMAIN tasks

\* a pre- list holds a handler, and with an allow-list in place registering under
\* the post- name of the same task, which has no list, has been refused
C7_Witness ==
    /\ RegisteredUnderAllowList
    /\ lastReg.name \in PhaseNames
    /\ lastReg.threw
    /\ \E t \in BareNames : PreName(t) \in DOMAIN tasks /\ Len(tasks[PreName(t)]) > 0
                            /\ lastReg.name = PostName(t)

\* C8: over registerTask and defineTasks calls every handler list only grows at its
\* end: a list stays, and what it held stays at the front of it in the same order.
C8_AppendOnly ==
    [][\A n \in DOMAIN tasks : n \in DOMAIN tasks' /\ IsPrefix(tasks[n], tasks'[n])]_vars

\* what holds instead: registerTask only appends, and defineTasks keeps the lists of
\* bare names
C8_WhatTheCodeDoes ==
    [][\A n \in DOMAIN tasks :
           (lastReg'.op = "registerTask" \/ n \in BareNames)
               => n \in DOMAIN tasks' /\ IsPrefix(tasks[n], tasks'[n])]_vars

\* C12: a registerTask call that throws 'Task name ... not defined!' leaves every
\* handler list and the allow-list as they were, and its message lists every name
\* that has a handler list, each name of the allow-list among them.
C12_FailedRegisterLeavesRegistry ==
    [][(lastReg'.op = "registerTask" /\ lastReg'.threw) =>
           /\ tasks' = tasks
           /\ allowedTasks' = allowedTasks
           /\ nextFn' = nextFn
           /\ lastReg'.message = DOMAIN tasks'
           /\ NamesOf(allowedTasks'.names) \subseteq lastReg'.message]_vars

\* a registerTask call has been refused while a handler is registered under a name
\* that is not in the allow-list, and its message lists that name too
C12_Witness ==
    /\ lastReg.op = "registerTask"
    /\ lastReg.threw
    /\ tasks = [n \in lastReg.message |-> tasks[n]]
    /\ \E n \in lastReg.message :
           /\ n \notin NamesOf(allowedTasks.names)
           /\ Len(tasks[n]) > 0
    /\ NamesOf(allowedTasks.names) # {}

\* C17: every name of the allow-list has a handler list (maybe without handlers),
\* so a run / pipe call that takes its task names from the allow-list never rejects
\* with UnknownTask.
C17_AllowListedNamesHaveLists ==
    /\ \A n \in NamesOf(allowedTasks.names) : n \in DOMAIN tasks
    /\ (TasksOmitted /\ ~allowedTasks.isNull) =>
           /\ outcome.err.kind # "UnknownTask"
           /\ Requested = allowedTasks.names
           /\ (Finished /\ ~EndedEarly) => outcome.state = "resolved"

\* a call without task names has resolved over an allow-list of two names, one with
\* a handler and one whose list holds no handler
C17_Witness ==
    /\ TasksOmitted
    /\ Len(allowedTasks.names) = 2
    /\ outcome.state = "resolved"
    /\ Len(log) > 0
    /\ \E n \in NamesOf(allowedTasks.names) : tasks[n] = <<>>

\* C20: once an allow-list is defined it stays defined, and from then on a
\* registerTask call never changes the set of names that have a handler list (only
\* defineTasks does); a registerTask call for a name that has a list, in the
\* allow-list or not, appends its handler to that list.
C20_NoNewNameUnderAllowList ==
    [][/\ ~allowedTasks.isNull => ~allowedTasks'.isNull
       /\ (~allowedTasks.isNull /\ lastReg'.op = "registerTask")
              => DOMAIN tasks' = DOMAIN tasks
       /\ (~allowedTasks.isNull /\ DOMAIN tasks' # DOMAIN tasks)
              => lastReg'.op = "defineTasks"
       /\ (lastReg'.op = "registerTask" /\ lastReg'.name \in DOMAIN tasks)
              => /\ ~lastReg'.threw
                 /\ tasks' = [tasks EXCEPT ![lastReg'.name] = Append(@, nextFn)]]_vars

\* a bare name got a handler, an allow-list without that name was defined, and the
\* name got a second handler
C20_Witness ==
    /\ lastReg.op = "registerTask"
    /\ lastReg.allowActive
    /\ lastReg.name \in BareNames
    /\ ~lastReg.inAllowed
    /\ ~lastReg.threw
    /\ Len(tasks[lastReg.name]) = 2

\* pipe is called with a task list as its first argument and a third argument
ExplicitTasks ==
    /\ call.kind = "pipe"
    /\ call.argv[1].kind \in {"array", "string"}
    /\ call.argv[3].kind # "undefined"

\* C14: in pipe(taskNames, context, initialValue, timeoutMs) with a task
\* list the first handler invoked receives context as its context and initialValue
\* as its pipe value, whatever the kind of initialValue (a number too).
C14_FirstHandlerGetsArguments ==
    (ExplicitTasks /\ Len(log) > 0) =>
        log[1].ctx = call.argv[2] /\ log[1].arg = call.argv[3]

\* what the code does there: a number as the third argument is not a pipe value;
\* the first handler receives null as its context and the context argument as its
\* pipe value, and the number is not taken for the timeout either
C14_WhatTheCodeDoes ==
    (ExplicitTasks /\ Len(log) > 0) =>
        IF call.argv[3].kind # "number"
        THEN log[1].ctx = call.argv[2] /\ log[1].arg = call.argv[3]
        ELSE /\ log[1].ctx = Null
             /\ log[1].arg = call.argv[2]
             /\ call.timeout = call.argv[4]

\* C15 as claimed: pipe never resolves with a falsy value, whatever the registry,
\* the task sequence and the initial value.
C15_NeverResolvesFalsy ==
    (call.kind = "pipe" /\ outcome.state = "resolved") => Truthy(outcome.value)

\* C15 amended: the pipe value is checked after each phase that has handlers, so a
\* pipe call that invoked a handler resolves with a value that is not falsy; a pipe
\* call in which no requested phase has a handler resolves with the initial value
\* as it is, falsy or not.
C15_CheckedAfterPhasesWithHandlers ==
    (call.kind = "pipe" /\ outcome.state = "resolved") =>
        IF Len(log) > 0
        THEN /\ Truthy(outcome.value)
             /\ outcome.value = outs[Len(outs)].value
             /\ \A i \in 1..Len(outs) : LastOfPhase(i) => Truthy(outs[i].value)
        ELSE /\ outcome.value = InitialValue
             /\ \A i \in 1..Len(PhaseSeq(Requested)) :
                    ListOf(tasks, PhaseSeq(Requested)[i]) = <<>>

\* a pipe call that started from null has resolved after two handlers of one phase,
\* the first of which returned null
C15_Witness ==
    /\ call.kind = "pipe"
    /\ outcome.state = "resolved"
    /\ InitialValue = Null
    /\ Len(outs) = 2
    /\ outs[1].how = "null"
    /\ Truthy(outcome.value)

\* the handlers invoked so far
Invoked == [i \in 1..Len(log) |-> log[i].fn]

\* C18: a task name is checked when the loop reaches it: a call that rejects with
\* UnknownTask for the name at position k has invoked every handler of the phases
\* of the names before k, each has settled, and no handler of the name at k or of a
\* later name has been invoked; as long as a handler of an earlier name is awaited
\* the call is pending.
C18_NamesCheckedWhenReached ==
    (call.kind \in {"run", "pipe"} /\ Iterable(call.tasks)) =>
        /\ outcome.err.kind = "UnknownTask" =>
               /\ Invoked = ExpectedOrder(tasks, SubSeq(Requested, 1, call.ti - 1))
               /\ Len(outs) = Len(log)
               /\ \A i \in 1..Len(outs) : outs[i].how \in {"value", "null"}
               /\ \A i \in 1..Len(log) : log[i].ti < call.ti
               /\ inflight = {}
        /\ inflight # {} => outcome.state = "pending"

\* a call has rejected with UnknownTask for its second name after the handler of
\* its first name had settled, the pre- list of the second name holding a handler
C18_Witness ==
    /\ call.kind \in {"run", "pipe"}
    /\ outcome.err.kind = "UnknownTask"
    /\ call.ti = 2
    /\ Len(log) = 1
    /\ Len(outs) = 1
    /\ Len(ListOf(tasks, PreName(Requested[2]))) > 0

\* the locals a call works with
Bound(c) == [tasks |-> c.tasks, ctx |-> c.ctx, arg |-> c.arg, timeout |-> c.timeout]

\* the locals of run called with the arguments argv
RunBound(argv, allowed) ==
    [tasks |-> RunTasks(argv[1], allowed), ctx |-> argv[2], arg |-> argv[3],
     timeout |-> argv[4]]

\* the locals of pipe called with the arguments argv
PipeBound(argv, allowed) ==
    LET a == PipeArgs(argv[1], argv[2], argv[3], argv[4], allowed)
    IN  [tasks |-> a.tasks, ctx |-> a.ctx, arg |-> a.pipeArg, timeout |-> a.timeout]

\* the allow-list as an argument
AllowedNames == Arr(allowedTasks.names)

\* the first argument is undefined or null
NamesUndefined == call.kind \in {"run", "pipe"} /\ call.argv[1].kind \in {"undefined", "null"}

\* C13 as claimed: with an allow-list names, a run / pipe call with undefined for
\* the task names starts with the same locals, and so behaves the same, as the call
\* with names in the place of undefined.
C13_OmittedIsExplicit ==
    (NamesUndefined /\ ~allowedTasks.isNull /\ Len(outs) = 0) =>
        Bound(call) = IF call.kind = "run"
                      THEN RunBound([call.argv EXCEPT ![1] = AllowedNames], allowedTasks)
                      ELSE PipeBound([call.argv EXCEPT ![1] = AllowedNames], allowedTasks)

\* C13 amended: defineTasks(names, ...) makes the allow-list exactly names and
\* registerTask leaves it alone; run(undefined, ctx, args, timeout) starts with the
\* same locals as run(names, ctx, args, timeout); pipe starts with the same locals as
\* the call with names put in front of its arguments, pipe(ctx, value, timeout) as
\* pipe(names, ctx, value, timeout), when its first argument is no task list, so
\* pipe(undefined, ctx, value) is pipe(names, undefined, ctx, value).
C13_AllowListIsLastDefined ==
    [][/\ lastReg'.op = "defineTasks" => allowedTasks' = AllowedArr(lastReg'.args[1])
       /\ lastReg'.op # "defineTasks" => allowedTasks' = allowedTasks
       /\ (Idle /\ (TasksOmitted /\ ~allowedTasks.isNull)') =>
              Bound(call') =
                  IF call'.kind = "run"
                  THEN RunBound([call'.argv EXCEPT ![1] = AllowedNames'], allowedTasks')
                  ELSE PipeBound(<<AllowedNames', call'.argv[1], call'.argv[2], call'.argv[3]>>,
                                 allowedTasks')]_vars

\* pipe(ctx, data) has resolved over the allow-list <<b>>, defined after an
\* allow-list that named a, its handler having received ctx and data
C13_Witness ==
    /\ call.kind = "pipe"
    /\ call.argv[1] = Ctx
    /\ allowedTasks.names = <<"b">>
    /\ "a" \in DOMAIN tasks
    /\ tasks["a"] = <<>>
    /\ outcome.state = "resolved"
    /\ Len(log) > 0
    /\ log[1].ctx = Ctx
    /\ log[1].arg = Data

\* what of a call its caller can get to see: the outcome, the report so far and
\* the pipe value, and the handlers invoked
Observable == <<outcome, call.res, call.arg, log, outs, inflight>>

\* C11: an invocation whose timer fires (the timeout is a positive number) makes
\* the run / pipe call reject with the Timeout of that invocation, and no handler
\* is started after it; when the handler settles later, the outcome, the report
\* and the pipe value stay as they are; with a timeout that is 0 or absent no
\* invocation times out.
C11_TimeoutRejectsAndLateIsDiscarded ==
    [][/\ \A i \in 1..Len(outs') :
              outs'[i].how = "timeout" =>
                  /\ TimeoutEnabled(call'.timeout)
                  /\ outcome'.state = "rejected"
                  /\ outcome'.err = Err("Timeout", "", outs'[i].fn)
                  /\ i = Len(log')
                  /\ inflight' = {}
       /\ ~TimeoutEnabled(call'.timeout) =>
              /\ outcome'.err.kind # "Timeout"
              /\ abandoned' = {}
       /\ outcome.err.kind = "Timeout" => Observable' = Observable
       /\ abandoned' # abandoned =>
              \/ abandoned' \subseteq abandoned /\ Observable' = Observable
              \/ /\ abandoned \subseteq abandoned'
                 /\ abandoned' \ abandoned \subseteq inflight
                 /\ outcome'.err.kind = "Timeout"]_vars

\* a call has been rejected with Timeout while a handler of a later phase had not
\* been started, and the handler that timed out has settled since
C11_Witness ==
    /\ call.kind \in {"run", "pipe"}
    /\ outcome.state = "rejected"
    /\ outcome.err.kind = "Timeout"
    /\ Len(log) = 1
    /\ Len(ExpectedOrder(tasks, Requested)) = 2
    /\ AllKnown
    /\ abandoned = {}

\* the call in progress is the second one with its arguments
Repeated == first.kind \in {"run", "pipe"}

\* C16: run and pipe leave the handler lists and the allow-list as they were when
\* the call was made, however the call ends; the same call made once more, with
\* handlers that end as they did for the same context and argument, invokes the
\* same handlers with the same arguments and ends with the same outcome.
C16_CallsLeaveRegistry ==
    [][~Idle' =>
           /\ tasks' = tasks
           /\ allowedTasks' = allowedTasks
           /\ call'.reg = tasks'
           /\ Repeated' =>
                  /\ call'.kind = first'.kind
                  /\ call'.argv = first'.argv
                  /\ IsPrefix(log', first'.log)
                  /\ IsPrefix(outs', first'.outs)
                  /\ Finished' => /\ outcome' = first'.outcome
                                  /\ log' = first'.log
                                  /\ outs' = first'.outs]_vars

\* run(undefined, ctx, args) has been made twice and has resolved twice with a
\* report of two entries
C16_Witness ==
    /\ Repeated
    /\ call.kind = "run"
    /\ TasksOmitted
    /\ outcome.state = "resolved"
    /\ Len(outcome.report) = 2
    /\ first.outcome = outcome

\* the if-blocks of the loop, counted from 0 through all requested names
Pos(ti, ph) == (ti - 1) * PhaseCount + ph

PosTask(names, p) == names[(p \div PhaseCount) + 1]

PosPhase(names, p) == PhaseName(PosTask(names, p), p % PhaseCount)

\* with the registry T the loop stops at if-block p: the name has no list, or the
\* phase has handlers
PosUnknown(T, names, p) == p % PhaseCount = 0 /\ PosTask(names, p) \notin DOMAIN T

PosRuns(T, names, p) == Len(ListOf(T, PosPhase(names, p))) > 0

\* p is the first if-block from f on at which the loop stops
StopsAt(T, names, f, p) ==
    /\ p >= f
    /\ PosUnknown(T, names, p) \/ PosRuns(T, names, p)
    /\ \A q \in f..p - 1 : ~PosUnknown(T, names, q) /\ ~PosRuns(T, names, q)

\* what the call does when it goes on from if-block f with the registry T
GoesOnWith(T, names, f) ==
    LET last == PhaseCount * Len(names) - 1
    IN  IF \E p \in f..last : StopsAt(T, names, f, p)
        THEN LET p == CHOOSE p \in f..last : StopsAt(T, names, f, p)
             IN  IF PosUnknown(T, names, p)
                 THEN /\ outcome'.state = "rejected"
                      /\ outcome'.err = Err("UnknownTask", PosTask(names, p), 0)
                      /\ log' = log
                 ELSE /\ outcome'.state = "pending"
                      /\ Len(log') = Len(log) + 1
                      /\ Pos(log'[Len(log')].ti, log'[Len(log')].ph) = p
                      /\ log'[Len(log')].fn = T[PosPhase(names, p)][1]
                      /\ series'.list = T[PosPhase(names, p)]
        ELSE /\ outcome'.state = "resolved"
             /\ log' = log

\* C19: run and pipe read the registry each time they go on to the next phase, not
\* once when they are called: at the start and after each phase they go on with
\* the first phase that has handlers, or stop at the first name without a list, in
\* the registry as it is at that moment, with a registerTask or defineTasks call
\* made since the call started taken into account.
C19_RegistryReadAtEachPhase ==
    [][/\ (Idle /\ ~Idle' /\ Iterable(call'.tasks) /\ outcome'.state # "thrown")
              => GoesOnWith(tasks, call'.tasks.names, 0)
       /\ (~Idle /\ <<call'.ti, call'.ph>> # <<call.ti, call.ph>>)
              => GoesOnWith(tasks, call.tasks.names, Pos(call.ti, call.ph) + 1)]_vars

\* the handlers the lists of the registry T hold
HandlersOf(T) == UNION {{T[n][i] : i \in 1..Len(T[n])} : n \in DOMAIN T}

\* a call has resolved after invoking a handler that was registered, under a phase
\* the call had not started, while the first handler of the call was awaited
C19_Witness ==
    /\ call.kind \in {"run", "pipe"}
    /\ outcome.state = "resolved"
    /\ Len(log) = 2
    /\ lastReg.op = "registerTask"
    /\ log[2].fn \notin HandlersOf(call.reg)
    /\ log[2].fn \in HandlersOf(tasks)

\* a run has resolved without invoking a handler of a pre- / post- list that held
\* one when the call was made and that a defineTasks call has reset since
C19_ResetListSkipped ==
    /\ call.kind = "run"
    /\ outcome.state = "resolved"
    /\ lastReg.op = "defineTasks"
    /\ Len(outcome.report) < Len(ExpectedReport(call.reg, Requested, call.arg))
    /\ \E n \in DOMAIN call.reg :
           /\ n \in PhaseNames
           /\ Len(call.reg[n]) > 0
           /\ tasks[n] = <<>>
           /\ \A i \in 1..Len(log) : LogPhase(i) # n
====
